---- MODULE Spec2Model ----
(***************************************************************************)
(* A model of the blog MCP server (server.py) over its GitHub store        *)
(* adapter (git.py).                                                       *)
(*                                                                         *)
(* Strings are sequences of tokens.  A token is one character ("#", " ",   *)
(* "\n", "/", "-", "_", "a", ...) or an opaque run of characters that      *)
(* holds none of the characters the code inspects ("pages", ".md",         *)
(* "_meta.json", "---", ...).  The string operations of the code (split,   *)
(* replace, strip, startswith, re.sub, lower) are computed on tokens.      *)
(*                                                                         *)
(* The repository is a function from the paths that exist to their         *)
(* content.  A content is a record: kind "text" (a string that is not      *)
(* JSON), kind "obj" (the JSON text of a mapping m) or kind "arr" (the     *)
(* JSON text of the empty list).                                           *)
(***************************************************************************)
EXTENDS Naturals, Sequences, FiniteSets, TLC

------------------------------------------------------------------------------
(* Bounds *)

\* The number of tool calls of one run.
MaxOps == 1

\* The length of the strings the pure functions are applied to.
MaxLen == 3

------------------------------------------------------------------------------
(* Strings *)

\* str.split(sep): the segments between the separators.
RECURSIVE SplitFrom(_, _, _)
SplitFrom(s, sep, cur) ==
    IF s = <<>> THEN <<cur>>
    ELSE IF Head(s) = sep THEN <<cur>> \o SplitFrom(Tail(s), sep, <<>>)
    ELSE SplitFrom(Tail(s), sep, Append(cur, Head(s)))

Split(s, sep) == SplitFrom(s, sep, <<>>)

\* str.replace(tok, ''): every occurrence of the token removed.
Remove(s, tok) == SelectSeq(s, LAMBDA ch : ch # tok)

Whitespace == {" ", "\n", "\t"}

RECURSIVE LStrip(_, _)
LStrip(s, drop) ==
    IF s # <<>> /\ Head(s) \in drop THEN LStrip(Tail(s), drop) ELSE s

RECURSIVE RStrip(_, _)
RStrip(s, drop) ==
    IF s # <<>> /\ s[Len(s)] \in drop
    THEN RStrip(SubSeq(s, 1, Len(s) - 1), drop)
    ELSE s

\* str.strip(): leading and trailing characters of `drop` removed.
Strip(s, drop) == RStrip(LStrip(s, drop), drop)

StartsWith(s, p) == Len(s) >= Len(p) /\ SubSeq(s, 1, Len(p)) = p

------------------------------------------------------------------------------
(* title_to_filename *)

LowerLetters == {"a", "b", "c", "n", "i", "h", "o"}
UpperLetters == {"A", "B", "C"}
Digits       == {"1", "2"}
\* Word characters outside ASCII that are not Han: a capital and a small
\* Cyrillic letter.
OtherWordUpper == {"CYR_YA"}
OtherWordLower == {"cyr_ya"}
\* Han characters, named by their reading.
HanChars == {"HAN_ni", "HAN_hao"}

\* re's \w on str patterns: Unicode letters, digits and the underscore.
WordChars ==
    LowerLetters \cup UpperLetters \cup Digits \cup {"_"}
        \cup OtherWordUpper \cup OtherWordLower \cup HanChars

PinyinOf(ch) ==
    CASE ch = "HAN_ni"  -> <<"n", "i">>
      [] ch = "HAN_hao" -> <<"h", "a", "o">>
      [] OTHER          -> <<ch>>

\* ''.join(lazy_pinyin(title, style=Style.NORMAL)): Han characters become
\* their reading, everything else is kept, nothing is put between.
RECURSIVE lazy_pinyin(_)
lazy_pinyin(title) ==
    IF title = <<>> THEN <<>>
    ELSE PinyinOf(Head(title)) \o lazy_pinyin(Tail(title))

\* re.sub(r'[^\w\-]', '-', filename)
SubNonWord(s) ==
    [i \in 1..Len(s) |-> IF s[i] \in WordChars \cup {"-"} THEN s[i] ELSE "-"]

\* re.sub(r'-+', '-', filename)
RECURSIVE CollapseHyphens(_)
CollapseHyphens(s) ==
    IF Len(s) < 2 THEN s
    ELSE IF s[1] = "-" /\ s[2] = "-" THEN CollapseHyphens(Tail(s))
    ELSE <<s[1]>> \o CollapseHyphens(Tail(s))

LowerChar(ch) ==
    CASE ch = "A" -> "a"
      [] ch = "B" -> "b"
      [] ch = "C" -> "c"
      [] ch = "CYR_YA" -> "cyr_ya"
      [] OTHER -> ch

Lower(s) == [i \in 1..Len(s) |-> LowerChar(s[i])]

\* title_to_filename without the final strip('-').
title_to_filename_nostrip(title) ==
    Lower(CollapseHyphens(SubNonWord(lazy_pinyin(title))))

title_to_filename(title) ==
    Lower(Strip(CollapseHyphens(SubNonWord(lazy_pinyin(title))), {"-"}))

------------------------------------------------------------------------------
(* has_markdown_title, add_title_to_content *)

\* has_markdown_title that takes a blank content to have its title.
has_markdown_title_blank(content) ==
    LET stripped == Strip(content, Whitespace)
    IN IF stripped = <<>> THEN TRUE
       ELSE StartsWith(Split(stripped, "\n")[1], <<"#", " ">>)

has_markdown_title(content) ==
    LET stripped == Strip(content, Whitespace)
    IN IF stripped = <<>> THEN FALSE
       ELSE StartsWith(Split(stripped, "\n")[1], <<"#", " ">>)

\* add_title_to_content that leaves every content as it is.
add_title_to_content_keep(title, content) == content

add_title_to_content(title, content) ==
    IF has_markdown_title(content) THEN content
    ELSE <<"#", " ">> \o title \o <<"\n", "\n">> \o content

\* The provenance footer of create_new_article, for the time `now`.
ai_footer(now) ==
    <<"\n", "\n", "---", "\n", "> This article was created by AI at ",
      now, " and is for reference only.">>

------------------------------------------------------------------------------
(* Contents and JSON *)

EmptyMap == [k \in {} |-> <<>>]

Text(s) == [kind |-> "text", s |-> s, m |-> EmptyMap]
Obj(m)  == [kind |-> "obj",  s |-> <<>>, m |-> m]
Arr     == [kind |-> "arr",  s |-> <<>>, m |-> EmptyMap]
\* Python's None, where a content is expected.
None    == [kind |-> "none", s |-> <<>>, m |-> EmptyMap]

\* json.dumps(meta_data, ...) of a dict.
json_dumps(m) == Obj(m)

\* json.loads that answers an empty dict for a text that is no JSON.
json_loads_lenient(c) ==
    CASE c.kind = "obj" -> [t |-> "dict", m |-> c.m]
      [] c.kind = "arr" -> [t |-> "list", m |-> EmptyMap]
      [] OTHER          -> [t |-> "dict", m |-> EmptyMap]

\* json.loads(content): "error" stands for json.JSONDecodeError.
json_loads(c) ==
    CASE c.kind = "obj" -> [t |-> "dict", m |-> c.m]
      [] c.kind = "arr" -> [t |-> "list", m |-> EmptyMap]
      [] OTHER          -> [t |-> "error", m |-> EmptyMap]

\* meta_data[filename] = title
Put(m, k, v) == [x \in DOMAIN m \cup {k} |-> IF x = k THEN v ELSE m[x]]

\* del meta_data[filename]
Del(m, k) == [x \in DOMAIN m \ {k} |-> m[x]]

------------------------------------------------------------------------------
(* Paths *)

\* The categories with one more accepted.
Categories_wide == {<<"web3">>, <<"note">>, <<"blog">>}

Categories == {<<"web3">>, <<"note">>}

ArticlePath(category, filename) ==
    <<"pages", "/">> \o category \o <<"/">> \o filename \o <<".md">>

MetaPath(category) == <<"pages", "/">> \o category \o <<"/", "_meta.json">>

DeployPath == <<".deploy-version">>

------------------------------------------------------------------------------
(* GitRepository: the store adapter.  Every call has an outcome `o`:       *)
(*   "ok"    the GitHub API answered (a 404 for a path that does not       *)
(*           exist is such an answer),                                     *)
(*   "gherr" the API call raised a GithubException that is no 404 of a     *)
(*           missing path (authentication, rate limit, conflict, 5xx),     *)
(*   "exc"   the call raised another exception (the connection), which     *)
(*           the adapter does not catch.                                   *)

Outcomes == {"ok", "gherr", "exc"}

Exists(files, p) == p \in DOMAIN files

\* read_file that answers an empty content, not None, for a missing file.
read_file_blank(files, p, o) ==
    IF o = "exc" THEN [raised |-> TRUE, ret |-> None]
    ELSE IF o = "ok" /\ Exists(files, p) THEN [raised |-> FALSE, ret |-> files[p]]
    ELSE [raised |-> FALSE, ret |-> Text(<<>>)]

\* read_file: the content, None on any GithubException.
read_file(files, p, o) ==
    IF o = "exc" THEN [raised |-> TRUE, ret |-> None]
    ELSE IF o = "ok" /\ Exists(files, p) THEN [raised |-> FALSE, ret |-> files[p]]
    ELSE [raised |-> FALSE, ret |-> None]

\* write_file with the GithubException swallowed: True whatever happened.
write_file_swallow(files, p, c, o) ==
    IF o = "exc" THEN [raised |-> TRUE, ret |-> FALSE, files |-> files]
    ELSE IF o = "ok"
    THEN [raised |-> FALSE, ret |-> TRUE,
          files |-> [q \in DOMAIN files \cup {p} |-> IF q = p THEN c ELSE files[q]]]
    ELSE [raised |-> FALSE, ret |-> TRUE, files |-> files]

\* write_file: create-or-update; False on a GithubException.
write_file(files, p, c, o) ==
    IF o = "exc" THEN [raised |-> TRUE, ret |-> FALSE, files |-> files]
    ELSE IF o = "ok"
    THEN [raised |-> FALSE, ret |-> TRUE,
          files |-> [q \in DOMAIN files \cup {p} |-> IF q = p THEN c ELSE files[q]]]
    ELSE [raised |-> FALSE, ret |-> FALSE, files |-> files]

\* delete_file: get_contents, then delete; False on a GithubException (the
\* 404 of a missing path included).
delete_file(files, p, o) ==
    IF o = "exc" THEN [raised |-> TRUE, ret |-> FALSE, files |-> files]
    ELSE IF o = "ok" /\ Exists(files, p)
    THEN [raised |-> FALSE, ret |-> TRUE,
          files |-> [q \in DOMAIN files \ {p} |-> files[q]]]
    ELSE [raised |-> FALSE, ret |-> FALSE, files |-> files]

\* One entry of the log of the store calls a tool call issued: the call,
\* its path, its outcome and whether it returned a content or True.
Call(op, p, o, good) == [op |-> op, path |-> p, o |-> o, good |-> good]

\* What a tool call leaves: the repository, the kind of its answer, the
\* answer's payload (a path or a content) and the store calls it issued.
Result(files, kind, out, log) ==
    [files |-> files, kind |-> kind, out |-> out, log |-> log]

------------------------------------------------------------------------------
(* The tools of server.py.  `o` holds the outcomes of the store calls the  *)
(* tool issues, in the order it issues them.                               *)

InvalidCategory == <<"blog">>

\* title=None of update_article, category=None of get_article_list.
NoTitle    == <<"<None>">>
NoCategory == <<"<None>">>

create_new_article(files, title, content, category, now, o) ==
    IF category \notin Categories
    THEN Result(files, "err_category", None, <<>>)
    ELSE
    LET filename      == title_to_filename(title)
        filepath      == ArticlePath(category, filename)
        final_content == add_title_to_content(title, content) \o ai_footer(now)
        meta_filepath == MetaPath(category)
        r1            == read_file(files, meta_filepath, o[1])
        meta_content  == r1.ret
        log1          == <<Call("read", meta_filepath, o[1], meta_content # None)>>
        parsed        == json_loads(meta_content)
        \* meta_data[filename] = title on a list raises TypeError.
        type_error    == meta_content # None /\ parsed.t = "list"
        meta_data     ==
            IF meta_content = None THEN Put(EmptyMap, filename, title)
            ELSE IF parsed.t = "error" THEN Put(EmptyMap, filename, title)
            ELSE Put(parsed.m, filename, title)
        w2   == write_file(files, meta_filepath, json_dumps(meta_data), o[2])
        log2 == Append(log1, Call("write", meta_filepath, o[2], w2.ret))
        w3   == write_file(w2.files, filepath, Text(final_content), o[3])
        log3 == Append(log2, Call("write", filepath, o[3], w3.ret))
    IN  IF r1.raised \/ type_error
        THEN Result(files, "err_exception", None, log1)
        ELSE IF w2.raised THEN Result(w2.files, "err_exception", None, log2)
        ELSE IF ~w2.ret THEN Result(w2.files, "err_index_write", None, log2)
        ELSE IF w3.raised THEN Result(w3.files, "err_exception", None, log3)
        ELSE IF ~w3.ret
        THEN Result(w3.files, "err_article_write", Text(filepath), log3)
        ELSE Result(w3.files, "created", Text(filepath), log3)

\* The path checks and the parse of update_article and delete_article.
PathParts(path) == Split(path, "/")

InvalidPathFormat(path) ==
    Len(PathParts(path)) < 3 \/ PathParts(path)[1] # <<"pages">>

PathCategory(path) == PathParts(path)[2]

PathFilename(path) == Remove(PathParts(path)[3], ".md")

update_article(files, path, new_content, title, o) ==
    LET r1   == read_file(files, path, o[1])
        log1 == <<Call("read", path, o[1], r1.ret # None)>>
    IN  IF r1.raised THEN Result(files, "err_exception", None, log1)
        ELSE IF r1.ret = None THEN Result(files, "not_found", None, log1)
        ELSE IF InvalidPathFormat(path) THEN Result(files, "err_path", None, log1)
        ELSE
        LET category      == PathCategory(path)
            filename      == PathFilename(path)
            meta_filepath == MetaPath(category)
            r2            == read_file(files, meta_filepath, o[2])
            meta_content  == r2.ret
            log2          == Append(log1, Call("read", meta_filepath, o[2], meta_content # None))
            parsed        == json_loads(meta_content)
            has_key       == parsed.t = "dict" /\ filename \in DOMAIN parsed.m
            w3   == write_file(files, meta_filepath,
                               json_dumps(Put(parsed.m, filename, title)), o[3])
            log3 == Append(log2, Call("write", meta_filepath, o[3], w3.ret))
            \* The repository and the log when the index phase is over.
            mid_files == IF title # NoTitle /\ has_key THEN w3.files ELSE files
            mid_log   == IF title = NoTitle THEN log1
                         ELSE IF has_key THEN log3 ELSE log2
            w4   == write_file(mid_files, path, new_content, o[4])
            log4 == Append(mid_log, Call("write", path, o[4], w4.ret))
        IN  IF title # NoTitle /\ r2.raised
            THEN Result(files, "err_exception", None, log2)
            ELSE IF title # NoTitle /\ meta_content = None
            THEN Result(files, "err_meta_missing", None, log2)
            ELSE IF title # NoTitle /\ parsed.t = "error"
            THEN Result(files, "err_meta_format", None, log2)
            ELSE IF title # NoTitle /\ has_key /\ w3.raised
            THEN Result(w3.files, "err_exception", None, log3)
            ELSE IF title # NoTitle /\ has_key /\ ~w3.ret
            THEN Result(w3.files, "err_index_write", None, log3)
            ELSE IF w4.raised THEN Result(w4.files, "err_exception", None, log4)
            ELSE IF ~w4.ret THEN Result(w4.files, "err_article_write", None, log4)
            ELSE Result(w4.files, "updated", Text(path), log4)

get_article(files, path, o) ==
    LET r1   == read_file(files, path, o[1])
        log1 == <<Call("read", path, o[1], r1.ret # None)>>
    IN  IF r1.raised THEN Result(files, "err_exception", None, log1)
        ELSE IF r1.ret = None THEN Result(files, "not_found", None, log1)
        ELSE Result(files, "content", r1.ret, log1)

\* delete_article that goes on to the delete when the index write failed.
delete_article_best_effort(files, path, o) ==
    LET r1   == read_file(files, path, o[1])
        log1 == <<Call("read", path, o[1], r1.ret # None)>>
    IN  IF r1.raised THEN Result(files, "err_exception", None, log1)
        ELSE IF r1.ret = None THEN Result(files, "not_found", None, log1)
        ELSE IF InvalidPathFormat(path) THEN Result(files, "err_path", None, log1)
        ELSE
        LET category      == PathCategory(path)
            filename      == PathFilename(path)
            meta_filepath == MetaPath(category)
            r2            == read_file(files, meta_filepath, o[2])
            meta_content  == r2.ret
            log2          == Append(log1, Call("read", meta_filepath, o[2], meta_content # None))
            parsed        == json_loads(meta_content)
            has_key       == meta_content # None /\ parsed.t = "dict"
                                 /\ filename \in DOMAIN parsed.m
            w3   == write_file(files, meta_filepath,
                               json_dumps(Del(parsed.m, filename)), o[3])
            log3 == Append(log2, Call("write", meta_filepath, o[3], w3.ret))
            mid_files == IF has_key THEN w3.files ELSE files
            mid_log   == IF has_key THEN log3 ELSE log2
            d4   == delete_file(mid_files, path, o[4])
            log4 == Append(mid_log, Call("delete", path, o[4], d4.ret))
        IN  IF r2.raised THEN Result(files, "err_exception", None, log2)
            ELSE IF has_key /\ w3.raised
            THEN Result(w3.files, "err_exception", None, log3)
            ELSE IF d4.raised THEN Result(d4.files, "err_exception", None, log4)
            ELSE IF ~d4.ret THEN Result(d4.files, "err_delete", None, log4)
            ELSE Result(d4.files, "deleted", Text(path), log4)

\* delete_article that deletes the article file first and updates the index
\* after the delete succeeded.
delete_article_content_first(files, path, o) ==
    LET r1   == read_file(files, path, o[1])
        log1 == <<Call("read", path, o[1], r1.ret # None)>>
    IN  IF r1.raised THEN Result(files, "err_exception", None, log1)
        ELSE IF r1.ret = None THEN Result(files, "not_found", None, log1)
        ELSE IF InvalidPathFormat(path) THEN Result(files, "err_path", None, log1)
        ELSE
        LET category      == PathCategory(path)
            filename      == PathFilename(path)
            meta_filepath == MetaPath(category)
            d2   == delete_file(files, path, o[2])
            log2 == Append(log1, Call("delete", path, o[2], d2.ret))
            r3   == read_file(d2.files, meta_filepath, o[3])
            log3 == Append(log2, Call("read", meta_filepath, o[3], r3.ret # None))
            parsed  == json_loads(r3.ret)
            has_key == r3.ret # None /\ parsed.t = "dict"
                           /\ filename \in DOMAIN parsed.m
            w4   == write_file(d2.files, meta_filepath,
                               json_dumps(Del(parsed.m, filename)), o[4])
            log4 == Append(log3, Call("write", meta_filepath, o[4], w4.ret))
        IN  IF d2.raised THEN Result(d2.files, "err_exception", None, log2)
            ELSE IF ~d2.ret THEN Result(d2.files, "err_delete", None, log2)
            ELSE IF r3.raised THEN Result(d2.files, "err_exception", None, log3)
            ELSE IF ~has_key THEN Result(d2.files, "deleted", Text(path), log3)
            ELSE IF w4.raised THEN Result(w4.files, "err_exception", None, log4)
            ELSE IF ~w4.ret THEN Result(w4.files, "err_index_write", None, log4)
            ELSE Result(w4.files, "deleted", Text(path), log4)

delete_article(files, path, o) ==
    LET r1   == read_file(files, path, o[1])
        log1 == <<Call("read", path, o[1], r1.ret # None)>>
    IN  IF r1.raised THEN Result(files, "err_exception", None, log1)
        ELSE IF r1.ret = None THEN Result(files, "not_found", None, log1)
        ELSE IF InvalidPathFormat(path) THEN Result(files, "err_path", None, log1)
        ELSE
        LET category      == PathCategory(path)
            filename      == PathFilename(path)
            meta_filepath == MetaPath(category)
            r2            == read_file(files, meta_filepath, o[2])
            meta_content  == r2.ret
            log2          == Append(log1, Call("read", meta_filepath, o[2], meta_content # None))
            parsed        == json_loads(meta_content)
            has_key       == meta_content # None /\ parsed.t = "dict"
                                 /\ filename \in DOMAIN parsed.m
            w3   == write_file(files, meta_filepath,
                               json_dumps(Del(parsed.m, filename)), o[3])
            log3 == Append(log2, Call("write", meta_filepath, o[3], w3.ret))
            mid_files == IF has_key THEN w3.files ELSE files
            mid_log   == IF has_key THEN log3 ELSE log2
            d4   == delete_file(mid_files, path, o[4])
            log4 == Append(mid_log, Call("delete", path, o[4], d4.ret))
        IN  IF r2.raised THEN Result(files, "err_exception", None, log2)
            ELSE IF has_key /\ w3.raised
            THEN Result(w3.files, "err_exception", None, log3)
            ELSE IF has_key /\ ~w3.ret
            THEN Result(w3.files, "err_index_write", None, log3)
            ELSE IF d4.raised THEN Result(d4.files, "err_exception", None, log4)
            ELSE IF ~d4.ret THEN Result(d4.files, "err_delete", None, log4)
            ELSE Result(d4.files, "deleted", Text(path), log4)

\* One category of get_article_list: its index read into `result`.
\* meta_data.items() on a list raises AttributeError.
ListCategory(files, cat, o, acc) ==
    LET meta_filepath == MetaPath(cat)
        r      == read_file(files, meta_filepath, o)
        parsed == json_loads(r.ret)
        log    == Append(acc.log, Call("read", meta_filepath, o, r.ret # None))
    IN  IF acc.raised THEN acc
        ELSE IF r.raised \/ (r.ret # None /\ parsed.t = "list")
        THEN [raised |-> TRUE, result |-> acc.result, log |-> log]
        ELSE IF r.ret = None \/ parsed.t = "error"
        THEN [raised |-> FALSE, result |-> acc.result, log |-> log]
        ELSE [raised |-> FALSE, log |-> log,
              result |->
                  [p \in DOMAIN acc.result
                         \cup {ArticlePath(cat, k) : k \in DOMAIN parsed.m} |->
                      IF \E k \in DOMAIN parsed.m : ArticlePath(cat, k) = p
                      THEN parsed.m[CHOOSE k \in DOMAIN parsed.m : ArticlePath(cat, k) = p]
                      ELSE acc.result[p]]]

get_article_list(files, category, o) ==
    LET start == [raised |-> FALSE, result |-> EmptyMap, log |-> <<>>]
        one   == ListCategory(files, category, o[1], start)
        all   == ListCategory(files, <<"note">>, o[2],
                              ListCategory(files, <<"web3">>, o[1], start))
        done  == IF category # NoCategory THEN one ELSE all
    IN  IF category # NoCategory /\ category \notin Categories
        THEN Result(files, "err_category", None, <<>>)
        ELSE IF done.raised THEN Result(files, "err_exception", None, done.log)
        ELSE Result(files, "list", json_dumps(done.result), done.log)

deploy(files, now, o) ==
    LET deploy_content == <<"deploy-version: ", now>>
        w1   == write_file(files, DeployPath, Text(deploy_content), o[1])
        log1 == <<Call("write", DeployPath, o[1], w1.ret)>>
    IN  IF w1.raised THEN Result(w1.files, "err_exception", None, log1)
        ELSE IF ~w1.ret THEN Result(w1.files, "err_deploy", None, log1)
        ELSE Result(w1.files, "deployed", Text(<<now>>), log1)

------------------------------------------------------------------------------
(* The state machine: one tool call at a time (each runs to completion     *)
(* before the next is accepted).                                           *)

VARIABLES
    files,   \* the repository: path -> content, for the paths that exist
    pre,     \* the repository before the last tool call
    last,    \* the last tool call: its arguments and its answer
    calls,   \* the store calls the last tool call issued, in order
    failed,  \* some store call so far had an outcome other than "ok"
    nops,    \* the number of tool calls so far
    running  \* the create_new_article invocations in flight, step by step

vars == <<files, pre, last, calls, failed, nops, running>>

\* The arguments the callers pass.
Titles == {<<"A">>, <<"a", " ", "B">>, <<"!", " ">>}

\* title of update_article: absent, or a new title.
TitleArgs == {NoTitle, <<"N">>}

Bodies == {<<>>, <<"b">>, <<"\n", "#", " ", "h", "\n", "b">>}

Times == {"t1"}

GhostIndex == Obj([k \in {<<"g">>} |-> <<"G">>])

NewContents == {Text(<<"n">>), GhostIndex}

CategoryArgs == Categories \cup {InvalidCategory}

SubPath   == <<"pages", "/", "note", "/", "sub", "/", "x", ".md">>
TxtPath   == <<"pages", "/", "note", "/", "a", ".txt">>
ReadmePath == <<"README", ".md">>

PathArgs ==
    {ArticlePath(<<"note">>, <<"a">>), ArticlePath(<<"web3">>, <<"a">>),
     MetaPath(<<"note">>),
     SubPath, TxtPath, ReadmePath}

\* The repositories a run starts from.  In each, every key of a valid index
\* has its article file.
SeedArticle(t) == Text(<<"#", " ">> \o t \o <<"\n", "\n", "x">>)

SeedExtras ==
    (SubPath :> Text(<<"s">>)) @@ (TxtPath :> Text(<<"t">>))
        @@ (ReadmePath :> Text(<<"r">>))

SeedFiles ==
    (ArticlePath(<<"note">>, <<"a">>) :> SeedArticle(<<"A">>))
        @@ (ArticlePath(<<"note">>, <<"b">>) :> SeedArticle(<<"B">>))

SeedWeb3 ==
    (MetaPath(<<"web3">>) :> Obj(<<"a">> :> <<"W">>))
        @@ (ArticlePath(<<"web3">>, <<"a">>) :> SeedArticle(<<"W">>))

SeedIndex ==
    Obj((<<"a">> :> <<"A">>) @@ (<<"b">> :> <<"B">>))

InitRepos ==
    { EmptyMap,
      (MetaPath(<<"note">>) :> SeedIndex) @@ SeedFiles @@ SeedExtras,
      (MetaPath(<<"note">>) :> Obj(EmptyMap)) @@ SeedFiles,
      (MetaPath(<<"note">>) :> Text(<<"{">>)) @@ SeedFiles,
      (MetaPath(<<"note">>) :> Arr) @@ SeedFiles,
      (MetaPath(<<"note">>) :> Text(<<"{">>)) @@ SeedFiles @@ SeedWeb3,
      SeedFiles }

\* No invocation in flight.
NoRun == [p \in {} |-> <<>>]

NoCall ==
    [op |-> "none", title |-> <<>>, content |-> None, category |-> <<>>,
     path |-> <<>>, now |-> "", kind |-> "none", out |-> None]

Init ==
    /\ files \in InitRepos
    /\ pre = files
    /\ last = NoCall
    /\ calls = <<>>
    /\ failed = FALSE
    /\ nops = 0
    /\ running = NoRun

\* The state after a tool call that left `r`, under the outcomes `o`.  The
\* outcomes of the calls the tool did not come to issue are left "ok", so
\* that one run of the tool is one choice of `o`.
Done(r, call, o) ==
    /\ \A i \in DOMAIN o : i > Len(r.log) => o[i] = "ok"
    /\ files' = r.files
    /\ pre' = files
    /\ last' = [call EXCEPT !.kind = r.kind, !.out = r.out]
    /\ calls' = r.log
    /\ failed' = (failed \/ \E i \in 1..Len(r.log) : r.log[i].o # "ok")
    /\ nops' = nops + 1
    /\ UNCHANGED running

OutcomeSeqs(n) == [1..n -> Outcomes]

Create ==
    /\ nops < MaxOps
    /\ \E title \in Titles, body \in Bodies, category \in CategoryArgs,
          now \in Times, o \in OutcomeSeqs(3) :
         Done(create_new_article(files, title, body, category, now, o),
              [NoCall EXCEPT !.op = "create", !.title = title,
                             !.content = Text(body), !.category = category,
                             !.now = now], o)

Update ==
    /\ nops < MaxOps
    /\ \E path \in PathArgs, new_content \in NewContents,
          title \in TitleArgs, o \in OutcomeSeqs(4) :
         Done(update_article(files, path, new_content, title, o),
              [NoCall EXCEPT !.op = "update", !.path = path,
                             !.content = new_content, !.title = title], o)

Get ==
    /\ nops < MaxOps
    /\ \E path \in PathArgs, o \in OutcomeSeqs(1) :
         Done(get_article(files, path, o),
              [NoCall EXCEPT !.op = "get", !.path = path], o)

Delete ==
    /\ nops < MaxOps
    /\ \E path \in PathArgs, o \in OutcomeSeqs(4) :
         Done(delete_article(files, path, o),
              [NoCall EXCEPT !.op = "delete", !.path = path], o)

List ==
    /\ nops < MaxOps
    /\ \E category \in CategoryArgs \cup {NoCategory}, o \in OutcomeSeqs(2) :
         Done(get_article_list(files, category, o),
              [NoCall EXCEPT !.op = "list", !.category = category], o)

Deploy ==
    /\ nops < MaxOps
    /\ \E now \in Times, o \in OutcomeSeqs(1) :
         Done(deploy(files, now, o),
              [NoCall EXCEPT !.op = "deploy", !.now = now], o)

Next == Create \/ Update \/ Get \/ Delete \/ List \/ Deploy

Spec == Init /\ [][Next]_vars

------------------------------------------------------------------------------
(* What the claims speak of *)

\* The answers that report a failure to the caller.
FailureKinds ==
    {"err_category", "err_exception", "err_index_write", "err_article_write",
     "err_path", "err_meta_missing", "err_meta_format", "err_delete",
     "err_deploy", "not_found"}

\* The store calls of the last tool call, by what they are.
IsWrite(i, p)  == calls[i].op = "write" /\ calls[i].path = p
IsDelete(i, p) == calls[i].op = "delete" /\ calls[i].path = p

\* The path has the same content, or is as absent, in both repositories.
SameAt(f, g, p) ==
    (p \in DOMAIN f <=> p \in DOMAIN g) /\ (p \in DOMAIN f => f[p] = g[p])

\* The keys of the index of a category, when it is a mapping.
IsMapping(f, c) == MetaPath(c) \in DOMAIN f /\ f[MetaPath(c)].kind = "obj"
IndexKeys(f, c) == IF IsMapping(f, c) THEN DOMAIN f[MetaPath(c)].m ELSE {}

\* The article path and the index path of the last create_new_article.
CreatedPath == ArticlePath(last.category, title_to_filename(last.title))
CreatedMeta == MetaPath(last.category)

\* C1: in create_new_article the article file is written only after the
\* write of the category index succeeded; when the index write fails the
\* call answers a failure and no write to the article path is issued.
C1_IndexWriteBeforeArticle ==
    (last.op = "create" /\ last.category \in Categories) =>
        /\ \A i \in DOMAIN calls :
              IsWrite(i, CreatedPath) =>
                  \E j \in 1..(i - 1) : IsWrite(j, CreatedMeta) /\ calls[j].o = "ok"
        /\ (\E j \in DOMAIN calls : IsWrite(j, CreatedMeta) /\ calls[j].o # "ok") =>
              /\ last.kind \in FailureKinds
              /\ \A i \in DOMAIN calls : ~IsWrite(i, CreatedPath)
              /\ SameAt(files, pre, CreatedPath)

\* A create_new_article whose index write failed.
C1_Witness ==
    /\ last.op = "create" /\ last.category \in Categories
    /\ \E j \in DOMAIN calls : IsWrite(j, CreatedMeta) /\ calls[j].o = "gherr"
    /\ last.kind = "err_index_write"

\* The article of category c and key k is the path of the last call, it
\* existed before the call and k was a key of the index of c.
LastIsIndexed(c, k) ==
    /\ last.path = ArticlePath(c, k)
    /\ last.path \in DOMAIN pre
    /\ k \in IndexKeys(pre, c)

\* C2 as stated: in delete_article a failed index write does not block the
\* deletion; the delete of the article file is still issued and its success
\* or failure is the answer.
C2_Original ==
    \A c \in Categories : \A k \in IndexKeys(pre, c) :
        (/\ last.op = "delete" /\ LastIsIndexed(c, k)
         /\ \E j \in DOMAIN calls : IsWrite(j, MetaPath(c)) /\ calls[j].o # "ok") =>
            \E i \in DOMAIN calls :
                /\ IsDelete(i, last.path)
                /\ (last.kind = "deleted" <=> calls[i].o = "ok")

\* C2, amended: in delete_article a failed index write blocks the deletion:
\* the call answers a failure, issues no delete and the article file stays;
\* when the delete of the article file is issued, its success or failure
\* is the answer.
C2_IndexWriteFailureBlocksDelete ==
    \A c \in Categories : \A k \in IndexKeys(pre, c) :
        (last.op = "delete" /\ LastIsIndexed(c, k)) =>
            /\ (\E j \in DOMAIN calls : IsWrite(j, MetaPath(c)) /\ calls[j].o # "ok") =>
                  /\ last.kind \in {"err_index_write", "err_exception"}
                  /\ \A i \in DOMAIN calls : ~IsDelete(i, last.path)
                  /\ SameAt(files, pre, last.path)
            /\ \A i \in DOMAIN calls :
                  IsDelete(i, last.path) =>
                      /\ last.kind = "deleted" <=> calls[i].o = "ok"
                      /\ last.kind = "deleted" <=> last.path \notin DOMAIN files
                      /\ last.kind \in {"deleted", "err_delete", "err_exception"}

\* A delete_article of an indexed article whose index write failed.
C2_Witness ==
    \E c \in Categories : \E k \in IndexKeys(pre, c) :
        /\ last.op = "delete" /\ LastIsIndexed(c, k)
        /\ \E j \in DOMAIN calls : IsWrite(j, MetaPath(c)) /\ calls[j].o = "gherr"
        /\ last.kind = "err_index_write"

\* The last call is an update_article with a new title that came to read
\* the index (the article exists and the path passed the check).
UpdateReadIndex ==
    /\ last.op = "update" /\ last.title # NoTitle
    /\ Len(calls) >= 2
    /\ calls[2].op = "read"

C4_Original ==
    (/\ UpdateReadIndex
     /\ calls[2].o = "ok"
     /\ calls[2].path \in DOMAIN pre
     /\ pre[calls[2].path].kind = "obj"
     /\ PathFilename(last.path) \notin DOMAIN pre[calls[2].path].m) =>
        /\ last.kind \in FailureKinds
        /\ \A i \in DOMAIN calls : ~IsWrite(i, last.path)

\* I1: every key of an index that is a mapping has its article file.
I1(f) ==
    \A c \in Categories : \A k \in IndexKeys(f, c) : ArticlePath(c, k) \in DOMAIN f

\* C5 as stated: as long as every store call succeeded, I1 holds.
C5_Original == ~failed => I1(files)

\* C6 as stated: a store call of create, update or delete that fails with
\* a remote-store error ends the call: a failure is answered and no later
\* write or delete is issued.
C6_Original ==
    last.op \in {"create", "update", "delete"} =>
        \A i \in DOMAIN calls :
            calls[i].o # "ok" =>
                /\ last.kind \in FailureKinds
                /\ \A j \in DOMAIN calls :
                      j > i => calls[j].op \notin {"write", "delete"}

\* pages/<category>/<filename>.md: three segments, the first 'pages', the
\* last ending in .md.
ExactShape(path) ==
    LET parts == Split(path, "/")
    IN  /\ Len(parts) = 3
        /\ parts[1] = <<"pages">>
        /\ parts[2] # <<>>
        /\ Len(parts[3]) >= 2
        /\ parts[3][Len(parts[3])] = ".md"

\* C7 as stated: update_article and delete_article on a path of another
\* shape answer an error and issue no write or delete.  (A path at which
\* nothing exists is answered not-found before its shape is looked at; the
\* formula takes that answer for an error as well.)
C7_Original ==
    (last.op \in {"update", "delete"} /\ ~ExactShape(last.path)) =>
        /\ last.kind \in FailureKinds
        /\ \A i \in DOMAIN calls : calls[i].op \notin {"write", "delete"}

\* C8 as stated: create_new_article with a title whose filename is empty
\* is rejected before any store call.
C8_Original ==
    (/\ last.op = "create" /\ last.category \in Categories
     /\ title_to_filename(last.title) = <<>>) =>
        /\ last.kind \in FailureKinds
        /\ calls = <<>>
        /\ files = pre

\* C9 as stated: a successful delete_article of an indexed article leaves
\* neither the key in the index nor the file, and nothing else changed.
C9_Original ==
    \A c \in Categories : \A k \in IndexKeys(pre, c) :
        (last.op = "delete" /\ LastIsIndexed(c, k) /\ last.kind = "deleted") =>
            /\ last.path \notin DOMAIN files
            /\ IsMapping(files, c)
            /\ files[MetaPath(c)].m = Del(pre[MetaPath(c)].m, k)
            /\ \A q \in (DOMAIN pre \cup DOMAIN files) \ {last.path, MetaPath(c)} :
                  SameAt(files, pre, q)

\* The first line that is not blank starts the content and is a level-1
\* heading: after whitespace only, "# ".
HeadingFirst(s) ==
    \E i \in 1..(Len(s) - 1) :
        /\ s[i] = "#" /\ s[i + 1] = " "
        /\ \A j \in 1..(i - 1) : s[j] \in Whitespace

EndsWith(s, suffix) ==
    Len(s) >= Len(suffix)
        /\ SubSeq(s, Len(s) - Len(suffix) + 1, Len(s)) = suffix

\* C10: a successful create_new_article answers the path
\* pages/<category>/<filename of the title>.md; the index of the category
\* then maps that filename to the title, and get_article on the path
\* answers the content (its own heading kept, or '# <title>' put first)
\* with a heading first and the provenance footer last.
C10_CreateThenRead ==
    (last.op = "create" /\ last.kind = "created") =>
        LET g == get_article(files, CreatedPath, <<"ok">>)
            heading == <<"#", " ">> \o last.title \o <<"\n", "\n">>
        IN  /\ last.out = Text(CreatedPath)
            /\ IsMapping(files, last.category)
            /\ title_to_filename(last.title) \in IndexKeys(files, last.category)
            /\ files[CreatedMeta].m[title_to_filename(last.title)] = last.title
            /\ g.kind = "content"
            /\ g.out.kind = "text"
            /\ HeadingFirst(g.out.s)
            /\ \E now \in Times :
                  /\ EndsWith(g.out.s, ai_footer(now))
                  /\ g.out.s \in {last.content.s \o ai_footer(now),
                                  heading \o last.content.s \o ai_footer(now)}

\* A successful create_new_article of a body without a heading, into an
\* index that held other entries.
C10_Witness ==
    /\ last.op = "create" /\ last.kind = "created"
    /\ last.content.s = <<>>
    /\ IndexKeys(pre, last.category) # {}
    /\ Cardinality(IndexKeys(files, last.category)) >= 2

\* C11 as stated: in delete_article the delete of the article file is
\* issued before any write to the index, so that the index is written only
\* after a delete that succeeded.
C11_Original ==
    last.op = "delete" =>
        \A i \in DOMAIN calls :
            calls[i].op = "write" =>
                \E j \in 1..(i - 1) : IsDelete(j, last.path) /\ calls[j].o = "ok"

\* C11, amended: delete_article is index-before-content: every write to the
\* category index is issued before the delete of the article file, the
\* delete is issued only when no index write failed, and the article file
\* is never gone while the call left the index as it was with the key in it.
C11_IndexBeforeDelete ==
    last.op = "delete" =>
        /\ \A i \in DOMAIN calls :
              IsDelete(i, last.path) =>
                  \A j \in DOMAIN calls :
                      calls[j].op = "write" => (j < i /\ calls[j].o = "ok")
        /\ \A c \in Categories : \A k \in IndexKeys(pre, c) :
              (LastIsIndexed(c, k) /\ \A j \in DOMAIN calls : calls[j].o = "ok") =>
                  (last.path \notin DOMAIN files => k \notin IndexKeys(files, c))

\* A delete_article that wrote the index and then failed to delete the
\* file: the entry is gone, the file is there.
C11_Witness ==
    \E c \in Categories : \E k \in IndexKeys(pre, c) :
        /\ last.op = "delete" /\ LastIsIndexed(c, k)
        /\ last.kind = "err_delete"
        /\ k \notin IndexKeys(files, c)
        /\ last.path \in DOMAIN files

\* The last call is a create_new_article or an update_article of a path of
\* the article shape, and it answered success.
WroteArticle ==
    \/ last.op = "create" /\ last.kind = "created"
    \/ last.op = "update" /\ last.kind = "updated" /\ ExactShape(last.path)

WrittenPath == IF last.op = "create" THEN CreatedPath ELSE last.path

\* C12 as stated (I2): after a successful create_new_article or
\* update_article the article file begins with a level-1 heading.
C12_Original ==
    WroteArticle =>
        /\ WrittenPath \in DOMAIN files
        /\ HeadingFirst(files[WrittenPath].s)

\* C12, amended: the file a successful create_new_article wrote begins with
\* a level-1 heading whatever content was passed; a successful
\* update_article leaves the file with new_content as it was passed, no
\* heading put before it.
C12_HeadingOnCreateOnly ==
    WroteArticle =>
        /\ WrittenPath \in DOMAIN files
        /\ last.op = "create" => HeadingFirst(files[WrittenPath].s)
        /\ last.op = "update" => files[WrittenPath] = last.content

\* A successful create_new_article of a content without a heading.
C12_Witness ==
    /\ last.op = "create" /\ last.kind = "created"
    /\ ~HeadingFirst(last.content.s)
    /\ HeadingFirst(files[CreatedPath].s)

\* The categories get_article_list was asked for.
ListScope == IF last.category = NoCategory THEN Categories ELSE {last.category}

\* The paths and titles of the indexes, among `cs`, that are mappings.
Listing(f, cs) ==
    LET ps == UNION {{ArticlePath(c, k) : k \in IndexKeys(f, c)} : c \in cs}
    IN  [p \in ps |->
            LET c == CHOOSE c \in cs : \E k \in IndexKeys(f, c) : ArticlePath(c, k) = p
                k == CHOOSE k \in IndexKeys(f, c) : ArticlePath(c, k) = p
            IN  f[MetaPath(c)].m[k]]

\* C13 as stated: get_article_list, with every read answered, does not fail
\* when an index is missing or is no mapping; that category adds nothing
\* and every entry of every index that is a mapping is listed.
C13_Original ==
    (/\ last.op = "list"
     /\ last.category \in Categories \cup {NoCategory}
     /\ \A i \in DOMAIN calls : calls[i].o = "ok"
     /\ \E c \in ListScope : ~IsMapping(pre, c)) =>
        /\ last.kind = "list"
        /\ last.out = json_dumps(Listing(pre, ListScope))

------------------------------------------------------------------------------
(* The pure functions on their own: title_to_filename on every title and   *)
(* add_title_to_content on every title and content up to MaxLen.           *)

SeqsUpTo(S, n) == UNION {[1..k -> S] : k \in 0..n}

\* Titles for title_to_filename: ASCII letters and digits, the underscore,
\* the hyphen, a space, punctuation, a Han and a Cyrillic character.
FilenameTitles ==
    SeqsUpTo({"a", "A", "1", "_", "-", " ", "!", "HAN_ni", "CYR_YA"}, MaxLen)

\* Titles and contents for add_title_to_content.
HeadingTitles   == SeqsUpTo({" ", "T"}, MaxLen)
HeadingContents == SeqsUpTo({"#", " ", "\n", "b"}, MaxLen)

InitPure ==
    /\ files = EmptyMap
    /\ pre = EmptyMap
    /\ calls = <<>>
    /\ failed = FALSE
    /\ nops = 0
    /\ running = NoRun
    /\ \/ \E t \in FilenameTitles :
             last = [NoCall EXCEPT !.op = "title", !.title = t]
       \/ \E t \in HeadingTitles : \E c \in HeadingContents :
             last = [NoCall EXCEPT !.op = "content", !.title = t,
                                   !.content = Text(c)]

\* filename = title_to_filename(title)
Derive ==
    /\ last.op = "title"
    /\ last' = [last EXCEPT !.op = "title_to_filename",
                            !.out = Text(title_to_filename(last.title))]
    /\ UNCHANGED <<files, pre, calls, failed, nops, running>>

\* content = add_title_to_content(title, content)
Normalize ==
    /\ last.op = "content"
    /\ last' = [last EXCEPT !.op = "add_title_to_content",
                            !.out = Text(add_title_to_content(last.title,
                                                              last.content.s))]
    /\ UNCHANGED <<files, pre, calls, failed, nops, running>>

NextPure == Derive \/ Normalize

SpecPure == InitPure /\ [][NextPure]_vars

\* ^[a-z0-9]+(-[a-z0-9]+)*$ over the characters of `word`: not empty, only
\* `word` characters and hyphens, no hyphen first, last or after a hyphen.
HyphenatedOver(s, word) ==
    /\ s # <<>>
    /\ \A i \in DOMAIN s : s[i] \in word \cup {"-"}
    /\ s[1] # "-" /\ s[Len(s)] # "-"
    /\ \A i \in 1..(Len(s) - 1) : ~(s[i] = "-" /\ s[i + 1] = "-")

C15_Original ==
    last.op = "add_title_to_content" =>
        add_title_to_content(last.title, last.out.s) = last.out.s

\* C16 as stated: update_article adds no index key and removes none,
\* creates no path and removes none, changes with a title only the value
\* under the key of the article, and without a title writes no index.
C16_Original ==
    last.op = "update" =>
        /\ DOMAIN files = DOMAIN pre
        /\ \A c \in Categories :
              /\ IsMapping(pre, c) =>
                    /\ IsMapping(files, c)
                    /\ IndexKeys(files, c) = IndexKeys(pre, c)
                    /\ \A k \in IndexKeys(pre, c) :
                          ~LastIsIndexed(c, k) =>
                              files[MetaPath(c)].m[k] = pre[MetaPath(c)].m[k]
              /\ last.title = NoTitle =>
                    \A i \in DOMAIN calls : ~IsWrite(i, MetaPath(c))

\* C17: update_article and delete_article on a path where no file is
\* answer not-found (the read answered) and issue no write and no delete:
\* the one store call is the read of the path, and nothing changes.
C17_MissingIsNotFound ==
    (last.op \in {"update", "delete"} /\ last.path \notin DOMAIN pre) =>
        /\ Len(calls) = 1
        /\ calls[1].op = "read" /\ calls[1].path = last.path
        /\ calls[1].o # "exc" => last.kind = "not_found"
        /\ last.kind \in FailureKinds
        /\ files = pre

\* An update_article or a delete_article of a missing article, in a
\* repository that holds an index, answered not-found.
C17_Witness ==
    /\ last.op \in {"update", "delete"}
    /\ last.path = ArticlePath(<<"web3">>, <<"a">>)
    /\ last.path \notin DOMAIN pre
    /\ MetaPath(<<"note">>) \in DOMAIN pre
    /\ last.kind = "not_found"
    /\ calls[1].o = "ok"

\* C18: create_new_article with a category that is neither web3 nor note
\* answers an error and issues no store call: no read, no write, no delete.
C18_InvalidCategoryRejected ==
    (last.op = "create" /\ last.category \notin {<<"web3">>, <<"note">>}) =>
        /\ last.kind = "err_category"
        /\ calls = <<>>
        /\ files = pre

\* A rejected create_new_article on a repository that holds an index.
C18_Witness ==
    /\ last.op = "create"
    /\ last.category = InvalidCategory
    /\ last.kind = "err_category"
    /\ pre # EmptyMap

\* C19 as stated: create_new_article, every store call answered, on an index
\* that is there but is no mapping answers no error, leaves the index with
\* the one entry of the new article, and writes the article.
C19_Original ==
    (/\ last.op = "create" /\ last.category \in Categories
     /\ CreatedMeta \in DOMAIN pre /\ pre[CreatedMeta].kind # "obj"
     /\ \A i \in DOMAIN calls : calls[i].o = "ok") =>
        /\ last.kind = "created"
        /\ files[CreatedMeta] = Obj(title_to_filename(last.title) :> last.title)
        /\ CreatedPath \in DOMAIN files

\* C20 as stated: a create_new_article that writes an index that was a
\* mapping leaves every entry under another key as it was, whatever the
\* store calls answered.
C20_Original ==
    (/\ last.op = "create" /\ last.category \in Categories
     /\ IsMapping(pre, last.category)
     /\ \E i \in DOMAIN calls : IsWrite(i, CreatedMeta) /\ calls[i].o = "ok") =>
        /\ IsMapping(files, last.category)
        /\ \A k \in IndexKeys(pre, last.category) \ {title_to_filename(last.title)} :
              /\ k \in IndexKeys(files, last.category)
              /\ files[CreatedMeta].m[k] = pre[CreatedMeta].m[k]

\* C21 as stated: the index file is kept from the article tools:
\* update_article and delete_article, whatever the path, issue no write and
\* no delete of pages/<category>/_meta.json as the article, no index is
\* removed, and an index that changed holds a mapping.
C21_Original ==
    \A c \in Categories :
        /\ (last.op \in {"update", "delete"} /\ last.path = MetaPath(c)) =>
              \A i \in DOMAIN calls :
                  ~IsWrite(i, MetaPath(c)) /\ ~IsDelete(i, MetaPath(c))
        /\ MetaPath(c) \in DOMAIN pre =>
              /\ MetaPath(c) \in DOMAIN files
              /\ files[MetaPath(c)] # pre[MetaPath(c)] =>
                    files[MetaPath(c)].kind = "obj"

------------------------------------------------------------------------------
(* Two create_new_article invocations over one repository, store call by   *)
(* store call.  Every store call is answered; write_file is its two calls: *)
(* get_contents, then update_file with the sha it got (create_file when    *)
(* there was no file).  The sha of a file is the hash of its content, so   *)
(* the content stands for it.                                              *)

Procs == {"p1", "p2"}

\* repo.get_contents(filepath).sha: None when the file is not there.
get_contents(f, p) == IF Exists(f, p) THEN f[p] ELSE None

\* repo.update_file(..., file.sha) is refused when the sha is not the one of
\* the file as it is now; repo.create_file, called when get_contents raised
\* and again when update_file raised, is refused when the file is there.
Accepted(f, p, sha) ==
    IF sha = None THEN ~Exists(f, p) ELSE Exists(f, p) /\ f[p] = sha

Stored(f, p, c) == [q \in DOMAIN f \cup {p} |-> IF q = p THEN c ELSE f[q]]

RaceRepos ==
    { EmptyMap,
      (MetaPath(<<"note">>) :> SeedIndex) @@ SeedFiles,
      (MetaPath(<<"note">>) :> Obj(EmptyMap)) @@ SeedFiles,
      (MetaPath(<<"note">>) :> Text(<<"{">>)) @@ SeedFiles,
      (MetaPath(<<"note">>) :> Arr) @@ SeedFiles,
      SeedFiles @@ SeedWeb3 }

Invocation(title, content, category) ==
    [pc |-> "read_index", title |-> title, content |-> content,
     category |-> category, meta_data |-> EmptyMap, sha |-> None,
     kind |-> "none"]

InitRace ==
    /\ files \in RaceRepos
    /\ pre = files
    /\ last = NoCall
    /\ calls = <<>>
    /\ failed = FALSE
    /\ nops = 0
    /\ \E c \in Categories : \E t1, t2 \in Titles : \E b \in Bodies :
          /\ title_to_filename(t1) # title_to_filename(t2)
          /\ running = [p \in Procs |->
                           IF p = "p1" THEN Invocation(t1, b, c)
                                       ELSE Invocation(t2, b, c)]

RunMeta(p)     == MetaPath(running[p].category)
RunFilename(p) == title_to_filename(running[p].title)
RunPath(p)     == ArticlePath(running[p].category, RunFilename(p))

\* meta_content = git_repo.read_file(meta_filepath) and the lines up to
\* meta_data[filename] = title.
ReadIndex(p) ==
    /\ running[p].pc = "read_index"
    /\ LET meta_content == read_file(files, RunMeta(p), "ok").ret
           parsed       == json_loads(meta_content)
       IN  running' = [running EXCEPT ![p] =
               IF meta_content = None
               THEN [@ EXCEPT !.pc = "get_index",
                              !.meta_data = RunFilename(p) :> running[p].title]
               ELSE IF parsed.t = "list"
               THEN [@ EXCEPT !.pc = "done", !.kind = "err_exception"]
               ELSE [@ EXCEPT !.pc = "get_index",
                              !.meta_data = Put(parsed.m, RunFilename(p),
                                                running[p].title)]]
    /\ UNCHANGED <<files, pre, last, calls, failed, nops>>

\* write_file(meta_filepath, ...): get_contents
GetIndex(p) ==
    /\ running[p].pc = "get_index"
    /\ running' = [running EXCEPT ![p].pc = "put_index",
                                  ![p].sha = get_contents(files, RunMeta(p))]
    /\ UNCHANGED <<files, pre, last, calls, failed, nops>>

\* write_file(meta_filepath, ...): update_file or create_file
PutIndex(p) ==
    /\ running[p].pc = "put_index"
    /\ IF Accepted(files, RunMeta(p), running[p].sha)
       THEN /\ files' = Stored(files, RunMeta(p), json_dumps(running[p].meta_data))
            /\ running' = [running EXCEPT ![p].pc = "get_article"]
       ELSE /\ files' = files
            /\ running' = [running EXCEPT ![p].pc = "done",
                                          ![p].kind = "err_index_write"]
    /\ UNCHANGED <<pre, last, calls, failed, nops>>

\* write_file(filepath, final_content): get_contents
GetArticle(p) ==
    /\ running[p].pc = "get_article"
    /\ running' = [running EXCEPT ![p].pc = "put_article",
                                  ![p].sha = get_contents(files, RunPath(p))]
    /\ UNCHANGED <<files, pre, last, calls, failed, nops>>

\* write_file(filepath, final_content): update_file or create_file
PutArticle(p) ==
    /\ running[p].pc = "put_article"
    /\ LET final_content ==
               add_title_to_content(running[p].title, running[p].content)
                   \o ai_footer("t1")
       IN  IF Accepted(files, RunPath(p), running[p].sha)
           THEN /\ files' = Stored(files, RunPath(p), Text(final_content))
                /\ running' = [running EXCEPT ![p].pc = "done",
                                              ![p].kind = "created"]
           ELSE /\ files' = files
                /\ running' = [running EXCEPT ![p].pc = "done",
                                              ![p].kind = "err_article_write"]
    /\ UNCHANGED <<pre, last, calls, failed, nops>>

NextRace ==
    \E p \in Procs :
        \/ ReadIndex(p)
        \/ GetIndex(p)
        \/ PutIndex(p)
        \/ GetArticle(p)
        \/ PutArticle(p)

SpecRace == InitRace /\ [][NextRace]_vars

\* Both invocations ran to their end and answered success.
BothCreated ==
    /\ DOMAIN running = Procs
    /\ \A p \in Procs : running[p].pc = "done" /\ running[p].kind = "created"

\* C22 as stated: two create_new_article invocations in one category with
\* distinct derived filenames, their store calls interleaved in any order
\* and all answered with success, leave an index that holds both
\* filenames, and both created files are there.
C22_Original ==
    BothCreated =>
        \A p \in Procs :
            /\ IsMapping(files, running[p].category)
            /\ RunFilename(p) \in IndexKeys(files, running[p].category)
            /\ RunPath(p) \in DOMAIN files

====
